---- MODULE Spec2Model ----
(***************************************************************************)
(* Queue-mediated pipelines of the Generators repository:                  *)
(*   genqueue.py      sendto_queue / genfrom_queue                         *)
(*   genmultiplex.py  multiplex                                            *)
(*   consthread.py    ConsumerThread (with the broadcast fan-out)          *)
(* gencat.gen_cat and broadcast.broadcast are imported by these files but  *)
(* are not part of the sources; they are modelled from the specification   *)
(* (round-robin merge, lock-step fan-out).                                 *)
(***************************************************************************)
EXTENDS Integers, Sequences, FiniteSets, TLC

\* Bounds of the model.
MaxSources == 2
MaxTotal == 3
MaxRePulls == 1
MaxSinks == 2
MaxBLen == 2
MaxVal == 5
MaxStrLen == 8
MaxUb == 10
MaxIters == 3
MaxZLen == 3
MaxN == 26
MaxListLen == 4
MaxSends == 3
MaxCoinValue == 3
MaxSourceLen == 3
MaxTarget == 6

\* The end-of-stream marker put on a queue (genqueue.py line 8): one object,
\* distinct from every item (items are pairs of positive numbers).
StopIteration == <<0, 0>>

\* The k-th element of upstream i.  The pipeline never inspects an element
\* (it only tests identity with StopIteration), so distinct tagged elements
\* are the general case: any run over other values is a relabelling.
Item(i, k) == <<i, k>>

SourceOfLen(i, n) == [k \in 1..n |-> Item(i, k)]

QueueIds == 1..MaxSources

VARIABLES
    sources,    \* the list passed to multiplex: a sequence of finite sequences
    raises,     \* raises[i]: upstream i raises an error after its last element
    mpc,        \* multiplex(): "loop" | "append" (thread started, line 14
                \*   not yet run) | "returned"
    started,    \* iterations of multiplex's for loop completed (adapters appended)
    ppc,        \* ppc[i]: thread of sendto_queue(sources[i], ...):
                \*   "new" | "running" | "done" | "raised"
    pos,        \* pos[i]: elements of sources[i] already put
    in_q,       \* in_q[q]: content of queue q (FIFO, head first)
    hist,       \* history: every <<queue, producer, entry>> put, in put order
    st,         \* st[i]: adapter i (genfrom_queue generator): "active" | "exhausted"
    ended,      \* history: ended[i] iff adapter i has reported end-of-sequence
    yielded,    \* history: yielded[i] = the items adapter i has yielded
    pulls,      \* history: pulls[i] = number of next() calls made on adapter i
    gets,       \* history: number of get() calls made
    lastPull,   \* history: the latest next() on an adapter: [by, res]
    turn,       \* merged sequence: index of the adapter pulled last
    out,        \* history: the items the merged sequence has yielded
    mstate,     \* merged sequence: "running" | "done"
    repulls,    \* next() calls made on exhausted adapters (bounded)
    bsrc,       \* broadcast: the source sequence S
    nsinks,     \* broadcast: number of ConsumerThread sinks
    bpc,        \* broadcast: "items" | "sentinel" | "done"
    bpos,       \* broadcast: elements of S already sent to every sink
    bk,         \* broadcast: sinks already served in the current round
    cq,         \* cq[j]: ConsumerThread j's in_q
    cst,        \* cst[j]: ConsumerThread j: "new" | "running" | "ended"
    cheld,      \* cheld[j]: the entry get() has returned to thread j's
                \*   genfrom_queue and that is not yet tested and yielded
                \*   (<<>> while the thread is in get() or not running)
    cseen,      \* history: cseen[j] = the items target j got from its input
    csent,      \* history: csent[j] = what was passed to sink j's send()
    exited      \* the main thread has returned and the interpreter has exited:
                \*   the ConsumerThreads are daemon threads and end with it

\* More of the pipelines' state.
VARIABLES
    endless,    \* endless[i]: upstream i never ends; sources[i] is then the
                \*   part of it that is followed
    getters     \* history: the pairs <<queue, thread>> such that the thread
                \*   has called get() on the queue

muxVars == <<sources, raises, mpc, started, ppc, pos, in_q, hist, st, ended,
             yielded, pulls, gets, lastPull, turn, out, mstate, repulls,
             endless>>

bcVars == <<bsrc, nsinks, bpc, bpos, bk, cq, cst, cheld, cseen, csent, exited>>

\* to_ranges.py: contiguous(iterable) and to_ranges(iterable).
VARIABLES
    r_in,       \* the iterable given to contiguous, as a sequence
    r_pc,       \* "idle" | "start" | "loop" | "done" | "error" | "rendered"
    r_i,        \* pairs (x, y) of pairwise(iterable, 2) consumed by the loop
    r_buffer,   \* the local list buffer
    r_ybound,   \* the local name y has been bound by the for statement
    r_y,        \* the value of y when bound
    r_out,      \* the subsets yielded by contiguous, in order
    r_str       \* the strings yielded by to_ranges, in order

rangeVars == <<r_in, r_pc, r_i, r_buffer, r_ybound, r_y, r_out, r_str>>

\* find.py: find(s).
VARIABLES
    f_s,        \* the string given to find, as a sequence of characters
    f_pc,       \* "idle" | "start" | "scan" | "returned" | "raised"
    f_k,        \* substrings already taken from the imap and rejected
    f_res       \* the value returned

findVars == <<f_s, f_pc, f_k, f_res>>

\* generators.py: the two fib functions.
VARIABLES
    fb_ub,      \* the upper bound given to both
    fb_lpc,     \* list fib: "idle" | "loop" | "returned"
    fb_rv,      \* list fib: the local list rv
    fb_gpc,     \* takewhile over generator fib: "idle" | "new" | "yielded" | "done"
    fb_a,       \* generator fib: local a
    fb_b,       \* generator fib: local b
    fb_tw       \* the values takewhile has passed on

fibVars == <<fb_ub, fb_lpc, fb_rv, fb_gpc, fb_a, fb_b, fb_tw>>

\* itertools_intro.py: my_zip(*iterables).
VARIABLES
    z_in,       \* the iterables given to my_zip, as a sequence of sequences
    z_pc,       \* "idle" | "loop" | "returned"
    z_pos,      \* z_pos[i]: elements taken from the i-th iterator
    z_rv        \* the local list rv

zipVars == <<z_in, z_pc, z_pos, z_rv>>

\* prime.py: sieve(n).
VARIABLES
    sv_arg,     \* the argument n of the call
    sv_pc,      \* "idle" | "start" | "loop" | "returned"
    sv_n,       \* the function's variable n (rebound by the removal loop)
    sv_p,       \* the function's variable p (rebound by both loops)
    sv_ip,      \* the local p of the generator iterate(2) of the outer loop
    S_m,        \* the array S_m
    S_p,        \* the array S_p
    S_n,        \* the array S_n
    sv_todo,    \* the tuples of the list the removal loop has yet to take
    sv_res      \* the values of the generator returned, in order

sieveVars == <<sv_arg, sv_pc, sv_n, sv_p, sv_ip, S_m, S_p, S_n, sv_todo,
               sv_res>>

\* generators.py: listiterator(list_obj) under a for loop.
VARIABLES
    li_list,    \* self.list_obj, as a sequence
    li_idx,     \* self.idx
    li_pc,      \* "idle" | "iterating" | "StopIteration" | "IndexError"
    li_out      \* the values the for loop has been given, in order

listVars == <<li_list, li_idx, li_pc, li_out>>

\* greedy_simple.py: greedy(target, source).
VARIABLES
    g_target,   \* the argument target
    g_source,   \* the argument source, as a sequence
    g_pc,       \* "idle" | "next" | "inner" | "done"
    g_taken,    \* values taken from the iterator of source
    g_x,        \* the local x
    g_total,    \* the local total
    g_out       \* the values yielded, in order

greedyVars == <<g_target, g_source, g_pc, g_taken, g_x, g_total, g_out>>

pureVars == <<rangeVars, findVars, fibVars, zipVars, sieveVars, listVars,
              greedyVars>>

\* What no step of multiplex, its threads and its adapters changes.
nonMuxVars == <<bcVars, pureVars, endless>>

nonBcVars == <<muxVars, pureVars>>

vars == <<muxVars, bcVars, pureVars, getters>>

\* to_ranges.py is not running.
IdleRanges ==
    /\ r_in = <<>>
    /\ r_pc = "idle"
    /\ r_i = 0
    /\ r_buffer = <<>>
    /\ r_ybound = FALSE
    /\ r_y = 0
    /\ r_out = <<>>
    /\ r_str = <<>>

\* find.py is not running.
IdleFind ==
    /\ f_s = <<>>
    /\ f_pc = "idle"
    /\ f_k = 0
    /\ f_res = <<>>

\* The fib functions are not running.
IdleFib ==
    /\ fb_ub = 0
    /\ fb_lpc = "idle"
    /\ fb_rv = <<>>
    /\ fb_gpc = "idle"
    /\ fb_a = 0
    /\ fb_b = 0
    /\ fb_tw = <<>>

\* my_zip is not running.
IdleZip ==
    /\ z_in = <<>>
    /\ z_pc = "idle"
    /\ z_pos = <<>>
    /\ z_rv = <<>>

\* sieve is not running.
IdleSieve ==
    /\ sv_arg = 0
    /\ sv_pc = "idle"
    /\ sv_n = 0
    /\ sv_p = 0
    /\ sv_ip = 0
    /\ S_m = <<>>
    /\ S_p = <<>>
    /\ S_n = <<>>
    /\ sv_todo = <<>>
    /\ sv_res = <<>>

\* listiterator is not in use.
IdleList ==
    /\ li_list = <<>>
    /\ li_idx = 0
    /\ li_pc = "idle"
    /\ li_out = <<>>

\* greedy is not running.
IdleGreedy ==
    /\ g_target = 0
    /\ g_source = <<>>
    /\ g_pc = "idle"
    /\ g_taken = 0
    /\ g_x = 0
    /\ g_total = 0
    /\ g_out = <<>>

\* None of the stand-alone functions is running.
IdlePure ==
    /\ IdleRanges /\ IdleFind /\ IdleFib /\ IdleZip /\ IdleSieve
    /\ IdleList /\ IdleGreedy

N == Len(sources)

\* ---------------------------------------------------------------- Queue

\* Mutant of Put: a LIFO hand-off, the new entry goes to the head.
PutFront(q, x) == <<x>> \o q

\* Queue.Queue.put: append at the tail, never blocks (unbounded).
Put(q, x) == Append(q, x)

\* Queue.Queue.get blocks while the queue is empty.
CanGet(q) == q # <<>>

\* ------------------------------------------------------------ multiplex

\* genmultiplex.py line 8: one queue, allocated before the loop, is handed
\* to every sendto_queue thread and to every genfrom_queue adapter.
QueueOf(i) == 1

InitMuxE(srcs, rs, e) ==
    /\ sources = srcs
    /\ raises = rs
    /\ endless = e
    /\ getters = {}
    /\ mpc = "loop"
    /\ started = 0
    /\ ppc = [i \in 1..Len(srcs) |-> "new"]
    /\ pos = [i \in 1..Len(srcs) |-> 0]
    /\ in_q = [q \in QueueIds |-> <<>>]
    /\ hist = <<>>
    /\ st = <<>>
    /\ ended = [i \in 1..Len(srcs) |-> FALSE]
    /\ yielded = [i \in 1..Len(srcs) |-> <<>>]
    /\ pulls = [i \in 1..Len(srcs) |-> 0]
    /\ gets = 0
    /\ lastPull = [by |-> 0, res |-> "none"]
    /\ turn = 0
    /\ out = <<>>
    /\ mstate = "running"
    /\ repulls = 0

\* The same with upstreams that all end.
InitMux(srcs, rs) == InitMuxE(srcs, rs, [i \in 1..Len(srcs) |-> FALSE])

\* broadcast(S, sinks) is about to run over n freshly constructed
\* ConsumerThread sinks (each with an empty in_q, not yet started).
InitBcast(S, n) ==
    /\ bsrc = S
    /\ nsinks = n
    /\ bpc = "items"
    /\ bpos = 0
    /\ bk = 0
    /\ cq = [j \in 1..n |-> <<>>]
    /\ cst = [j \in 1..n |-> "new"]
    /\ cheld = [j \in 1..n |-> <<>>]
    /\ cseen = [j \in 1..n |-> <<>>]
    /\ csent = [j \in 1..n |-> <<>>]
    /\ exited = FALSE

RECURSIVE SumTo(_, _)
SumTo(f, n) == IF n = 0 THEN 0 ELSE f[n] + SumTo(f, n - 1)

\* The argument lists: 0..MaxSources upstreams holding at most MaxTotal
\* elements in all.
SourceLists ==
    UNION { { [i \in 1..n |-> SourceOfLen(i, len[i])] :
                len \in { l \in [1..n -> 0..MaxTotal] : SumTo(l, n) <= MaxTotal } }
            : n \in 0..MaxSources }

Init ==
    /\ \E srcs \in SourceLists :
          InitMux(srcs, [i \in 1..Len(srcs) |-> FALSE])
    /\ InitBcast(<<>>, 0)
    /\ IdlePure

\* Mutant of MultiplexStart: the loop body runs once before the test
\* (do-while), so a thread and an adapter exist even for an empty list.
MultiplexStartAtLeastOnce ==
    /\ mpc = "loop"
    /\ (started < N \/ started = 0)
    /\ ppc' = [i \in DOMAIN ppc |-> IF i = started + 1 THEN "running" ELSE ppc[i]]
    /\ mpc' = "append"
    /\ UNCHANGED <<nonMuxVars, getters, sources, raises, started, pos, in_q, hist, st, ended, yielded,
                   pulls, gets, lastPull, turn, out, mstate, repulls>>

\* The for loop takes the next source (line 10) and starts the thread of
\* sendto_queue(s, in_q) (lines 11-13).  From here on the thread runs
\* concurrently with the rest of multiplex.
MultiplexStart ==
    /\ mpc = "loop"
    /\ started < N
    /\ ppc' = [ppc EXCEPT ![started + 1] = "running"]
    /\ mpc' = "append"
    /\ UNCHANGED <<nonMuxVars, getters, sources, raises, started, pos, in_q, hist, st, ended, yielded,
                   pulls, gets, lastPull, turn, out, mstate, repulls>>

\* Line 14: consumers.append(genfrom_queue(in_q)); the iteration is over.
MultiplexAppend ==
    /\ mpc = "append"
    /\ started' = started + 1
    /\ st' = Append(st, "active")
    /\ mpc' = "loop"
    /\ UNCHANGED <<nonMuxVars, getters, sources, raises, ppc, pos, in_q, hist, ended, yielded, pulls,
                   gets, lastPull, turn, out, mstate, repulls>>

\* Line 15: the loop is over, gen_cat(consumers) is returned.
MultiplexReturn ==
    /\ mpc = "loop"
    /\ started = N
    /\ mpc' = "returned"
    /\ UNCHANGED <<nonMuxVars, getters, sources, raises, started, ppc, pos, in_q, hist, st, ended,
                   yielded, pulls, gets, lastPull, turn, out, mstate, repulls>>

\* --------------------------------------------------------- sendto_queue

\* Mutant of PumpPut: the queue is made with maxsize 1, put blocks while
\* the queue holds an entry.
PumpPutBounded(i) ==
    /\ ppc[i] = "running"
    /\ pos[i] < Len(sources[i])
    /\ Len(in_q[QueueOf(i)]) < 1
    /\ in_q' = [in_q EXCEPT ![QueueOf(i)] = Put(@, sources[i][pos[i] + 1])]
    /\ hist' = Append(hist, <<QueueOf(i), i, sources[i][pos[i] + 1]>>)
    /\ pos' = [pos EXCEPT ![i] = @ + 1]
    /\ UNCHANGED <<nonMuxVars, getters, sources, raises, mpc, started, ppc, st, ended, yielded, pulls,
                   gets, lastPull, turn, out, mstate, repulls>>

\* for item in source: thequeue.put(item)
PumpPut(i) ==
    /\ ppc[i] = "running"
    /\ pos[i] < Len(sources[i])
    /\ in_q' = [in_q EXCEPT ![QueueOf(i)] = Put(@, sources[i][pos[i] + 1])]
    /\ hist' = Append(hist, <<QueueOf(i), i, sources[i][pos[i] + 1]>>)
    /\ pos' = [pos EXCEPT ![i] = @ + 1]
    /\ UNCHANGED <<nonMuxVars, getters, sources, raises, mpc, started, ppc, st, ended, yielded, pulls,
                   gets, lastPull, turn, out, mstate, repulls>>

\* Mutant of PumpEnd: the thread ends without putting the sentinel.
PumpEndSilent(i) ==
    /\ ppc[i] = "running"
    /\ pos[i] = Len(sources[i])
    /\ ~raises[i]
    /\ ~endless[i]
    /\ ppc' = [ppc EXCEPT ![i] = "done"]
    /\ UNCHANGED <<nonMuxVars, getters, sources, raises, mpc, started, pos, in_q, hist, st, ended,
                   yielded, pulls, gets, lastPull, turn, out, mstate, repulls>>

\* The source is exhausted: thequeue.put(StopIteration), the thread ends.
PumpEnd(i) ==
    /\ ppc[i] = "running"
    /\ pos[i] = Len(sources[i])
    /\ ~raises[i]
    /\ ~endless[i]
    /\ in_q' = [in_q EXCEPT ![QueueOf(i)] = Put(@, StopIteration)]
    /\ hist' = Append(hist, <<QueueOf(i), i, StopIteration>>)
    /\ ppc' = [ppc EXCEPT ![i] = "done"]
    /\ UNCHANGED <<nonMuxVars, getters, sources, raises, mpc, started, pos, st, ended, yielded, pulls,
                   gets, lastPull, turn, out, mstate, repulls>>

\* The source raises inside the for statement: the exception leaves
\* sendto_queue (no try/finally), line 8 is not reached, the thread ends.
PumpRaise(i) ==
    /\ ppc[i] = "running"
    /\ pos[i] = Len(sources[i])
    /\ raises[i]
    /\ ppc' = [ppc EXCEPT ![i] = "raised"]
    /\ UNCHANGED <<nonMuxVars, getters, sources, raises, mpc, started, pos, in_q, hist, st, ended,
                   yielded, pulls, gets, lastPull, turn, out, mstate, repulls>>

\* -------------------------------------------------------- genfrom_queue

\* Mutant of AdapterNext: the item is yielded before it is tested, so the
\* sentinel is delivered as a value (and the generator ends at the next pull).
AdapterNextYieldFirst(i) ==
    /\ pulls' = [pulls EXCEPT ![i] = @ + 1]
    /\ IF st[i] = "exhausted"
       THEN /\ lastPull' = [by |-> i, res |-> "eos"]
            /\ ended' = [ended EXCEPT ![i] = TRUE]
            /\ UNCHANGED <<in_q, st, yielded, gets>>
       ELSE /\ CanGet(in_q[QueueOf(i)])
            /\ gets' = gets + 1
            /\ in_q' = [in_q EXCEPT ![QueueOf(i)] = Tail(@)]
            /\ yielded' = [yielded EXCEPT ![i] = Append(@, Head(in_q[QueueOf(i)]))]
            /\ lastPull' = [by |-> i, res |-> "item"]
            /\ st' = [st EXCEPT ![i] =
                         IF Head(in_q[QueueOf(i)]) = StopIteration
                         THEN "exhausted" ELSE "active"]
            /\ UNCHANGED ended

\* Mutant of AdapterNext: an iterator that reports the end on the sentinel
\* but keeps no record of it, so a later pull calls get() again.
AdapterNextForgetful(i) ==
    /\ pulls' = [pulls EXCEPT ![i] = @ + 1]
    /\ CanGet(in_q[QueueOf(i)])
    /\ gets' = gets + 1
    /\ in_q' = [in_q EXCEPT ![QueueOf(i)] = Tail(@)]
    /\ UNCHANGED st
    /\ IF Head(in_q[QueueOf(i)]) = StopIteration
       THEN /\ ended' = [ended EXCEPT ![i] = TRUE]
            /\ lastPull' = [by |-> i, res |-> "eos"]
            /\ UNCHANGED yielded
       ELSE /\ yielded' = [yielded EXCEPT ![i] = Append(@, Head(in_q[QueueOf(i)]))]
            /\ lastPull' = [by |-> i, res |-> "item"]
            /\ UNCHANGED ended

\* next() on adapter i.  A generator that has left its loop (break) is
\* finished: next() raises StopIteration again and runs no code.  Otherwise
\* the body runs: item = thequeue.get(); the sentinel breaks, an item is
\* yielded.
AdapterNext(i) ==
    /\ pulls' = [pulls EXCEPT ![i] = @ + 1]
    /\ IF st[i] = "exhausted"
       THEN /\ lastPull' = [by |-> i, res |-> "eos"]
            /\ ended' = [ended EXCEPT ![i] = TRUE]
            /\ UNCHANGED <<in_q, st, yielded, gets>>
       ELSE /\ CanGet(in_q[QueueOf(i)])
            /\ gets' = gets + 1
            /\ in_q' = [in_q EXCEPT ![QueueOf(i)] = Tail(@)]
            /\ IF Head(in_q[QueueOf(i)]) = StopIteration
               THEN /\ st' = [st EXCEPT ![i] = "exhausted"]
                    /\ ended' = [ended EXCEPT ![i] = TRUE]
                    /\ lastPull' = [by |-> i, res |-> "eos"]
                    /\ UNCHANGED yielded
               ELSE /\ yielded' = [yielded EXCEPT ![i] = Append(@, Head(in_q[QueueOf(i)]))]
                    /\ lastPull' = [by |-> i, res |-> "item"]
                    /\ UNCHANGED <<st, ended>>

\* The thread that iterates over the result of multiplex, and so runs the
\* bodies of the gen_cat and genfrom_queue generators.
Caller == <<"caller", 0>>

\* The record of get() calls after thread t has run next() on adapter i:
\* the body of genfrom_queue runs in the thread that calls next().
GetsBy(t, i) ==
    IF gets' # gets
    THEN getters \cup {<<<<"in_q", QueueOf(i)>>, t>>}
    ELSE getters

\* A caller pulls an adapter that has already ended (direct adapter use).
RePull(i) ==
    /\ mpc = "returned"
    /\ i \in 1..Len(st)
    /\ ended[i]
    /\ repulls < MaxRePulls
    /\ repulls' = repulls + 1
    /\ AdapterNext(i)
    /\ getters' = GetsBy(Caller, i)
    /\ UNCHANGED <<nonMuxVars, sources, raises, mpc, started, ppc, pos, hist, turn, out, mstate>>

\* -------------------------------------------------------------- gen_cat

Active == { i \in 1..Len(st) : st[i] = "active" }

\* Round-robin: the first active adapter after `turn` in the cycle 1..N.
Offset(i) == IF i > turn THEN i - turn ELSE i - turn + Len(st)

NextAdapter == CHOOSE i \in Active : \A j \in Active : Offset(i) <= Offset(j)

\* One pull step of the merged sequence: pull the adapter whose turn it is;
\* an item is yielded, an end-of-sequence retires the adapter.
MergedPull ==
    /\ mpc = "returned"
    /\ mstate = "running"
    /\ Active # {}
    /\ AdapterNext(NextAdapter)
    /\ turn' = NextAdapter
    /\ out' = IF lastPull'.res = "item"
              THEN Append(out, Head(in_q[QueueOf(NextAdapter)]))
              ELSE out
    /\ getters' = GetsBy(Caller, NextAdapter)
    /\ UNCHANGED <<nonMuxVars, sources, raises, mpc, started, ppc, pos, hist, mstate, repulls>>

\* Every adapter has ended (or there is none): the merged sequence ends.
MergedEnd ==
    /\ mpc = "returned"
    /\ mstate = "running"
    /\ Active = {}
    /\ mstate' = "done"
    /\ UNCHANGED <<nonMuxVars, getters, sources, raises, mpc, started, ppc, pos, in_q, hist, st, ended,
                   yielded, pulls, gets, lastPull, turn, out, repulls>>

\* ------------------------------------------------------- specifications

Pump(i) == i \in 1..N /\ (PumpPut(i) \/ PumpEnd(i))

Next ==
    \/ MultiplexStart
    \/ MultiplexAppend
    \/ MultiplexReturn
    \/ \E i \in 1..N : PumpPut(i)
    \/ \E i \in 1..N : PumpEnd(i)
    \/ MergedPull
    \/ MergedEnd
    \/ \E i \in 1..N : RePull(i)

Spec == Init /\ [][Next]_vars

\* Every started thread is scheduled again and again, multiplex runs to its
\* return and the consumer keeps pulling the merged sequence.
Fairness ==
    /\ \A i \in 1..MaxSources : WF_vars(Pump(i))
    /\ WF_vars(MultiplexStart \/ MultiplexAppend \/ MultiplexReturn)
    /\ WF_vars(MergedPull \/ MergedEnd)

FairSpec == Spec /\ Fairness

\* Two upstreams, each of which may be endless, under fair scheduling.  Of
\* an endless upstream the first Len(sources[i]) elements are followed.
InitEndless ==
    /\ \E srcs \in SourceLists : \E e \in [1..Len(srcs) -> BOOLEAN] :
          /\ Len(srcs) = 2
          /\ InitMuxE(srcs, [i \in 1..Len(srcs) |-> FALSE], e)
    /\ InitBcast(<<>>, 0)
    /\ IdlePure

FairSpecEndless == InitEndless /\ [][Next]_vars /\ Fairness

\* The consumer fails while processing the item it has just pulled: the
\* exception ends the iteration over the merged sequence in the caller's
\* thread; no queue and no sendto_queue thread is touched.
ConsumerFail ==
    /\ mpc = "returned"
    /\ mstate = "running"
    /\ lastPull.res = "item"
    /\ mstate' = "failed"
    /\ UNCHANGED <<nonMuxVars, getters, sources, raises, mpc, started, ppc, pos, in_q, hist, st,
                   ended, yielded, pulls, gets, lastPull, turn, out, repulls>>

NextFail ==
    \/ Next
    \/ ConsumerFail

\* The threads are scheduled and multiplex runs to its return; nothing is
\* assumed of the consumer, which may never pull, stop pulling or fail.
ProducerFairness ==
    /\ \A i \in 1..MaxSources : WF_vars(Pump(i))
    /\ WF_vars(MultiplexStart \/ MultiplexAppend \/ MultiplexReturn)

FairSpecFail == Init /\ [][NextFail]_vars /\ ProducerFairness

\* Upstreams that may raise an error after their last element.
InitRaise ==
    /\ \E srcs \in SourceLists : \E rs \in [1..Len(srcs) -> BOOLEAN] :
          InitMux(srcs, rs)
    /\ InitBcast(<<>>, 0)
    /\ IdlePure

NextRaise ==
    \/ Next
    \/ \E i \in 1..N : PumpRaise(i)

SpecRaise == InitRaise /\ [][NextRaise]_vars

\* ------------------------------------------- ConsumerThread / broadcast

\* The elements a broadcast source may hold (repetitions allowed).
BItems == { Item(1, 1), Item(1, 2) }

BSources == UNION { [1..n -> BItems] : n \in 0..MaxBLen }

\* c1 = ConsumerThread(t1), ...: every sink is constructed with a queue of
\* its own (self.in_q = Queue.Queue()); broadcast(S, sinks) is then called.
InitB ==
    /\ InitMux(<<>>, <<>>)
    /\ \E S \in BSources : \E n \in 1..MaxSinks : InitBcast(S, n)
    /\ IdlePure

\* Mutant of InQ: in_q is created once, in the class body, and is the same
\* object for every ConsumerThread.
InQOfClass(j) == 1

\* ConsumerThread.__init__: self.in_q = Queue.Queue(), one queue per object.
InQ(j) == j

\* Mutant of Send: in_q is a class attribute, one queue shared by all
\* ConsumerThread objects.
SendShared(j, item) ==
    /\ cq' = [cq EXCEPT ![1] = Put(@, item)]
    /\ csent' = [csent EXCEPT ![j] = Append(@, item)]

\* Mutant of Send: the item is pushed at the head of the sink's queue.
SendFront(j, item) ==
    /\ cq' = [cq EXCEPT ![j] = PutFront(@, item)]
    /\ csent' = [csent EXCEPT ![j] = Append(@, item)]

\* ConsumerThread.send: self.in_q.put(item)
Send(j, item) ==
    /\ cq' = [cq EXCEPT ![InQ(j)] = Put(@, item)]
    /\ csent' = [csent EXCEPT ![j] = Append(@, item)]

\* broadcast, one send of the element loop: the current element goes to the
\* next sink of the list; after the last sink the next element is pulled.
BroadcastItem ==
    /\ bpc = "items"
    /\ bpos < Len(bsrc)
    /\ Send(bk + 1, bsrc[bpos + 1])
    /\ IF bk + 1 = nsinks
       THEN bk' = 0 /\ bpos' = bpos + 1
       ELSE bk' = bk + 1 /\ bpos' = bpos
    /\ UNCHANGED <<nonBcVars, exited, cheld, getters, bsrc, nsinks, bpc, cst, cseen>>

\* broadcast: the source is exhausted.
BroadcastExhausted ==
    /\ bpc = "items"
    /\ bpos = Len(bsrc)
    /\ bpc' = "sentinel"
    /\ UNCHANGED <<nonBcVars, exited, cheld, csent, getters, bsrc, nsinks, bpos, bk, cq, cst, cseen>>

\* broadcast: the sentinel goes to every sink once, in list order; then
\* broadcast returns.
BroadcastSentinel ==
    /\ bpc = "sentinel"
    /\ Send(bk + 1, StopIteration)
    /\ IF bk + 1 = nsinks
       THEN bk' = 0 /\ bpc' = "done"
       ELSE bk' = bk + 1 /\ bpc' = bpc
    /\ UNCHANGED <<nonBcVars, exited, cheld, getters, bsrc, nsinks, bpos, cst, cseen>>

\* Mutant of ConsumerStart: the queue is made when the thread starts, so
\* what was sent before is gone.
ConsumerStartFresh(j) ==
    /\ ~exited
    /\ cst[j] = "new"
    /\ cst' = [cst EXCEPT ![j] = "running"]
    /\ cq' = [cq EXCEPT ![j] = <<>>]
    /\ UNCHANGED <<nonBcVars, exited, cheld, csent, getters, bsrc, nsinks, bpc, bpos, bk, cseen>>

\* c.start(): the thread begins run().
ConsumerStart(j) ==
    /\ ~exited
    /\ cst[j] = "new"
    /\ cst' = [cst EXCEPT ![j] = "running"]
    /\ UNCHANGED <<nonBcVars, exited, cheld, csent, getters, bsrc, nsinks, bpc, bpos, bk, cq, cseen>>

\* run(): self.target(genfrom_queue(self.in_q)); the target iterates over
\* its input, and each pull runs genfrom_queue up to its next yield.  This
\* is the first half, item = thequeue.get(): the thread waits in get() until
\* in_q has an entry and takes it.  The thread is a daemon thread
\* (self.setDaemon(True)): it runs only as long as the program does.
ConsumerGet(j) ==
    /\ ~exited
    /\ cst[j] = "running"
    /\ cheld[j] = <<>>
    /\ CanGet(cq[InQ(j)])
    /\ cq' = [cq EXCEPT ![InQ(j)] = Tail(@)]
    /\ cheld' = [cheld EXCEPT ![j] = <<Head(cq[InQ(j)])>>]
    /\ getters' = getters \cup {<<<<"cq", InQ(j)>>, <<"ConsumerThread", j>>>>}
    /\ UNCHANGED <<nonBcVars, exited, csent, bsrc, nsinks, bpc, bpos, bk, cst, cseen>>

\* The second half, 'if item is StopIteration: break' and 'yield item':
\* the sentinel ends the target's input and with it the thread; an item is
\* handed to the target, which takes it and pulls again, so that the
\* thread is in get() once more.
ConsumerHandOver(j) ==
    /\ ~exited
    /\ cst[j] = "running"
    /\ cheld[j] # <<>>
    /\ cheld' = [cheld EXCEPT ![j] = <<>>]
    /\ IF cheld[j][1] = StopIteration
       THEN cst' = [cst EXCEPT ![j] = "ended"] /\ UNCHANGED cseen
       ELSE cseen' = [cseen EXCEPT ![j] = Append(@, cheld[j][1])] /\ UNCHANGED cst
    /\ UNCHANGED <<nonBcVars, exited, csent, getters, bsrc, nsinks, bpc, bpos, bk, cq>>

\* The caller's program ends: the main thread returns and, every
\* ConsumerThread being a daemon thread (self.setDaemon(True)), the
\* interpreter exits without waiting for them.  What is still in a queue
\* is never taken, an entry already taken is never handed over, and a
\* thread that has not ended never does.
ProgramExit ==
    /\ ~exited
    /\ exited' = TRUE
    /\ UNCHANGED <<nonBcVars, getters, bsrc, nsinks, bpc, bpos, bk, cq, cst, cheld, cseen, csent>>

\* broadcast over started or unstarted sinks; once it has returned the
\* caller's program may end (consthread.py ends right after line 40).
NextB ==
    \/ BroadcastItem
    \/ BroadcastExhausted
    \/ BroadcastSentinel
    \/ \E j \in 1..nsinks : ConsumerStart(j)
    \/ \E j \in 1..nsinks : ConsumerGet(j)
    \/ \E j \in 1..nsinks : ConsumerHandOver(j)
    \/ bpc = "done" /\ ProgramExit

SpecB == InitB /\ [][NextB]_vars

\* One ConsumerThread used directly: a caller passes up to MaxSends
\* entries, items or the sentinel, to send(), at any time before or after
\* start(), and may end at any time.
SumSent == SumTo([j \in 1..nsinks |-> Len(csent[j])], nsinks)

CallerSend(j, item) ==
    /\ ~exited
    /\ SumSent < MaxSends
    /\ Send(j, item)
    /\ UNCHANGED <<nonBcVars, exited, cheld, getters, bsrc, nsinks, bpc, bpos, bk, cst, cseen>>

InitCT ==
    /\ InitMux(<<>>, <<>>)
    /\ InitBcast(<<>>, 1)
    /\ IdlePure

NextCT ==
    \/ \E j \in 1..nsinks : \E item \in BItems \cup {StopIteration} :
          CallerSend(j, item)
    \/ \E j \in 1..nsinks : ConsumerStart(j)
    \/ \E j \in 1..nsinks : ConsumerGet(j)
    \/ \E j \in 1..nsinks : ConsumerHandOver(j)
    \/ ProgramExit

\* As long as the program runs, start() is called and the thread is
\* scheduled; nothing makes the program keep running.
FairnessCT ==
    \A j \in 1..MaxSinks :
        /\ WF_vars(j \in 1..nsinks /\ ConsumerStart(j))
        /\ WF_vars(j \in 1..nsinks /\ ConsumerGet(j))
        /\ WF_vars(j \in 1..nsinks /\ ConsumerHandOver(j))

FairSpecCT == InitCT /\ [][NextCT]_vars /\ FairnessCT

\* The two programs side by side: a run of multiplex (no sink) or a run of
\* broadcast over ConsumerThread sinks.
InitEither == Init \/ InitB

NextEither ==
    \/ nsinks = 0 /\ Next
    \/ nsinks > 0 /\ NextB

SpecEither == InitEither /\ [][NextEither]_vars

\* ------------------------------------------------------------- to_ranges

\* The increasing enumeration of a finite set of integers.
SortedSeq(S) ==
    CHOOSE f \in [1..Cardinality(S) -> S] :
        \A a, b \in 1..Cardinality(S) : a < b => f[a] < f[b]

\* The inputs: the strictly increasing sequences over 1..MaxVal.
RangeInputs == {SortedSeq(S) : S \in SUBSET (1..MaxVal)}

\* pairwise(iterable, 2): izip of two tee copies, the second advanced once;
\* it yields the pairs (s[k], s[k+1]), so Len(s) - 1 of them (none for a
\* sequence of one element).
PairCount(s) == IF Len(s) = 0 THEN 0 ELSE Len(s) - 1

PairAt(s, k) == <<s[k], s[k + 1]>>

\* contiguous: the test "(y - x) > 1".
Gap(x, y) == y - x > 1

\* First next() on contiguous: the body starts and calls pairwise.  On an
\* empty iterable next(it) inside pairwise raises StopIteration, which ends
\* the generator with nothing yielded.
ContStart ==
    /\ r_pc = "start"
    /\ r_pc' = IF r_in = <<>> THEN "done" ELSE "loop"
    /\ UNCHANGED <<muxVars, bcVars, getters, listVars, greedyVars, findVars, fibVars, zipVars, sieveVars, r_in, r_i, r_buffer, r_ybound, r_y,
                   r_out, r_str>>

\* One iteration of "for x, y in pairwise(iterable, 2)".
ContStep ==
    /\ r_pc = "loop"
    /\ r_i < PairCount(r_in)
    /\ LET x == PairAt(r_in, r_i + 1)[1]
           y == PairAt(r_in, r_i + 1)[2]
       IN  /\ r_ybound' = TRUE
           /\ r_y' = y
           /\ IF Gap(x, y)
              THEN /\ r_out' = Append(r_out, Append(r_buffer, x))
                   /\ r_buffer' = <<>>
              ELSE /\ r_out' = r_out
                   /\ r_buffer' = Append(r_buffer, x)
    /\ r_i' = r_i + 1
    /\ UNCHANGED <<muxVars, bcVars, getters, listVars, greedyVars, findVars, fibVars, zipVars, sieveVars, r_in, r_pc, r_str>>

\* After the loop: "yield buffer + [y]" with y bound by the loop.
ContFinish ==
    /\ r_pc = "loop"
    /\ r_i >= PairCount(r_in)
    /\ r_ybound
    /\ r_out' = Append(r_out, Append(r_buffer, r_y))
    /\ r_pc' = "done"
    /\ UNCHANGED <<muxVars, bcVars, getters, listVars, greedyVars, findVars, fibVars, zipVars, sieveVars, r_in, r_i, r_buffer, r_ybound, r_y,
                   r_str>>

\* After a loop that never ran: y was never bound, "buffer + [y]" raises
\* UnboundLocalError.
ContUnbound ==
    /\ r_pc = "loop"
    /\ r_i >= PairCount(r_in)
    /\ ~r_ybound
    /\ r_pc' = "error"
    /\ UNCHANGED <<muxVars, bcVars, getters, listVars, greedyVars, findVars, fibVars, zipVars, sieveVars, r_in, r_i, r_buffer, r_ybound, r_y,
                   r_out, r_str>>

\* to_ranges: '%d' % subset[0] or '%d-%d' % (subset[0], subset[-1]).
Render(subset) ==
    IF Len(subset) = 1
    THEN ToString(subset[1])
    ELSE ToString(subset[1]) \o "-" \o ToString(subset[Len(subset)])

\* to_ranges over the subsets of contiguous.
ToRanges ==
    /\ r_pc = "done"
    /\ r_str' = [k \in 1..Len(r_out) |-> Render(r_out[k])]
    /\ r_pc' = "rendered"
    /\ UNCHANGED <<muxVars, bcVars, getters, listVars, greedyVars, findVars, fibVars, zipVars, sieveVars, r_in, r_i, r_buffer, r_ybound, r_y,
                   r_out>>

InitRanges ==
    /\ InitMux(<<>>, <<>>)
    /\ InitBcast(<<>>, 0)
    /\ r_in \in RangeInputs
    /\ r_pc = "start"
    /\ r_i = 0
    /\ r_buffer = <<>>
    /\ r_ybound = FALSE
    /\ r_y = 0
    /\ r_out = <<>>
    /\ r_str = <<>>
    /\ IdleFind
    /\ IdleFib
    /\ IdleZip
    /\ IdleSieve
    /\ IdleList
    /\ IdleGreedy

NextRanges ==
    \/ ContStart
    \/ ContStep
    \/ ContFinish
    \/ ContUnbound
    \/ ToRanges

SpecRanges == InitRanges /\ [][NextRanges]_vars

\* ------------------------------------------------------------------ find

\* The letters: two lowercase ones and an uppercase one.
Lower == {"a", "b"}

Upper == {"B"}

Strings == UNION {[1..n -> Lower \cup Upper] : n \in 0..MaxStrLen}

\* None, the default of next(): no string of letters.
None == <<"None">>

\* str.islower / str.isupper on a string of letters: not empty and every
\* letter of that case.
IsLower(str) == str # <<>> /\ \A k \in 1..Len(str) : str[k] \in Lower

IsUpper(str) == str # <<>> /\ \A k \in 1..Len(str) : str[k] \in Upper

\* find: substr[:3].islower() and substr[4:].islower() and
\* substr[3:4].isupper()
Match(substr) ==
    /\ IsLower(SubSeq(substr, 1, 3))
    /\ IsLower(SubSeq(substr, 5, Len(substr)))
    /\ IsUpper(SubSeq(substr, 4, 4))

\* pairwise(s, n): the i-th tee copy (i = 0..n-1) is advanced i times with
\* next(it); the advance runs past the end when s has fewer than n - 1
\* characters.
AdvanceFails(str, n) == \E i \in 0..(n - 1) : Len(str) < i

\* The izip of the staggered copies yields one tuple per position at which
\* every copy still has a character.
Substrings(str, n) ==
    [k \in 1..(IF Len(str) >= n THEN Len(str) - n + 1 ELSE 0) |->
        SubSeq(str, k, k + n - 1)]

\* find(s) builds pairwise(s, 7): a string shorter than 6 makes next(it)
\* raise StopIteration, which find does not catch.
FindStart ==
    /\ f_pc = "start"
    /\ f_pc' = IF AdvanceFails(f_s, 7) THEN "raised" ELSE "scan"
    /\ UNCHANGED <<muxVars, bcVars, getters, listVars, greedyVars, rangeVars, fibVars, zipVars, sieveVars, f_s, f_k, f_res>>

\* next() on the generator expression: the next substring is tested.
FindStep ==
    /\ f_pc = "scan"
    /\ f_k < Len(Substrings(f_s, 7))
    /\ LET x == Substrings(f_s, 7)[f_k + 1]
       IN  IF Match(x)
           THEN /\ f_res' = x
                /\ f_pc' = "returned"
                /\ f_k' = f_k
           ELSE /\ f_k' = f_k + 1
                /\ UNCHANGED <<f_res, f_pc>>
    /\ UNCHANGED <<muxVars, bcVars, getters, listVars, greedyVars, rangeVars, fibVars, zipVars, sieveVars, f_s>>

\* The substrings are used up: next() returns its default.
FindDefault ==
    /\ f_pc = "scan"
    /\ f_k >= Len(Substrings(f_s, 7))
    /\ f_res' = None
    /\ f_pc' = "returned"
    /\ UNCHANGED <<muxVars, bcVars, getters, listVars, greedyVars, rangeVars, fibVars, zipVars, sieveVars, f_s, f_k>>

InitFind ==
    /\ InitMux(<<>>, <<>>)
    /\ InitBcast(<<>>, 0)
    /\ IdleRanges
    /\ f_s \in Strings
    /\ f_pc = "start"
    /\ f_k = 0
    /\ f_res = <<>>
    /\ IdleFib
    /\ IdleZip
    /\ IdleSieve
    /\ IdleList
    /\ IdleGreedy

NextFind ==
    \/ FindStart
    \/ FindStep
    \/ FindDefault

SpecFind == InitFind /\ [][NextFind]_vars

\* ------------------------------------------------------------------- fib

\* The last element of a list: rv[-1]; the one before: rv[-2].
Last(rv) == rv[Len(rv)]

LastButOne(rv) == rv[Len(rv) - 1]

\* List fib: "while rv[-1] + rv[-2] < upper_bound: rv.append(...)".
FibAppend ==
    /\ fb_lpc = "loop"
    /\ Last(fb_rv) + LastButOne(fb_rv) < fb_ub
    /\ fb_rv' = Append(fb_rv, Last(fb_rv) + LastButOne(fb_rv))
    /\ UNCHANGED <<muxVars, bcVars, getters, listVars, greedyVars, rangeVars, findVars, zipVars, sieveVars, fb_ub, fb_lpc,
                   fb_gpc, fb_a, fb_b, fb_tw>>

\* List fib: the loop test fails, "return rv".
FibReturn ==
    /\ fb_lpc = "loop"
    /\ ~(Last(fb_rv) + LastButOne(fb_rv) < fb_ub)
    /\ fb_lpc' = "returned"
    /\ UNCHANGED <<muxVars, bcVars, getters, listVars, greedyVars, rangeVars, findVars, zipVars, sieveVars, fb_ub, fb_rv,
                   fb_gpc, fb_a, fb_b, fb_tw>>

\* takewhile(lambda x: x < upper_bound, fib()) asks for the next value:
\* the generator resumes ("a, b = b, a+b" unless it has not started),
\* yields a, and takewhile passes the value on if it is below the bound
\* and stops for good otherwise.
TakeWhileNext ==
    /\ fb_gpc \in {"new", "yielded"}
    /\ LET a == IF fb_gpc = "new" THEN fb_a ELSE fb_b
           b == IF fb_gpc = "new" THEN fb_b ELSE fb_a + fb_b
       IN  /\ fb_a' = a
           /\ fb_b' = b
           /\ IF a < fb_ub
              THEN /\ fb_tw' = Append(fb_tw, a)
                   /\ fb_gpc' = "yielded"
              ELSE /\ fb_tw' = fb_tw
                   /\ fb_gpc' = "done"
    /\ UNCHANGED <<muxVars, bcVars, getters, listVars, greedyVars, rangeVars, findVars, zipVars, sieveVars, fb_ub, fb_lpc,
                   fb_rv>>

InitFib ==
    /\ InitMux(<<>>, <<>>)
    /\ InitBcast(<<>>, 0)
    /\ IdleRanges
    /\ IdleFind
    /\ fb_ub \in (0 - MaxUb)..MaxUb
    /\ fb_lpc = "loop"
    /\ fb_rv = <<0, 1>>
    /\ fb_gpc = "new"
    /\ fb_a = 0
    /\ fb_b = 1
    /\ fb_tw = <<>>
    /\ IdleZip
    /\ IdleSieve
    /\ IdleList
    /\ IdleGreedy

NextFib ==
    \/ FibAppend
    \/ FibReturn
    \/ TakeWhileNext

SpecFib == InitFib /\ [][NextFib]_vars

\* ---------------------------------------------------------------- my_zip

\* The arguments: up to MaxIters iterables of up to MaxZLen elements, the
\* k-th element of the i-th one being Item(i, k).
ZipInputs ==
    UNION {{[i \in 1..n |-> SourceOfLen(i, l[i])] :
               l \in [1..n -> 0..MaxZLen]} : n \in 0..MaxIters}

\* Rounds of my_zip's loop followed (the loop is endless with no iterable).
MaxRounds == MaxZLen + 1

\* The i-th iterator has a next element.
HasNext(i) == z_pos[i] < Len(z_in[i])

\* One round of the while loop in which every next(x) succeeds:
\* "val = [next(x) for x in iterables]; rv.append(tuple(val))".  With no
\* iterable at all the comprehension is empty and never raises.
MyZipRound ==
    /\ z_pc = "loop"
    /\ Len(z_rv) < MaxRounds
    /\ \A i \in 1..Len(z_in) : HasNext(i)
    /\ z_rv' = Append(z_rv, [i \in 1..Len(z_in) |-> z_in[i][z_pos[i] + 1]])
    /\ z_pos' = [i \in 1..Len(z_in) |-> z_pos[i] + 1]
    /\ UNCHANGED <<muxVars, bcVars, getters, listVars, greedyVars, rangeVars, findVars, fibVars, sieveVars, z_in,
                   z_pc>>

\* A round in which next(x) raises StopIteration on the first exhausted
\* iterator (the ones before it have been advanced): "return rv".
MyZipReturn ==
    /\ z_pc = "loop"
    /\ \E e \in 1..Len(z_in) :
          /\ ~HasNext(e)
          /\ \A i \in 1..(e - 1) : HasNext(i)
          /\ z_pos' = [i \in 1..Len(z_in) |->
                          IF i < e THEN z_pos[i] + 1 ELSE z_pos[i]]
    /\ z_pc' = "returned"
    /\ UNCHANGED <<muxVars, bcVars, getters, listVars, greedyVars, rangeVars, findVars, fibVars, sieveVars, z_in,
                   z_rv>>

InitZip ==
    /\ InitMux(<<>>, <<>>)
    /\ InitBcast(<<>>, 0)
    /\ IdleRanges
    /\ IdleFind
    /\ IdleFib
    /\ z_in \in ZipInputs
    /\ z_pc = "loop"
    /\ z_pos = [i \in 1..Len(z_in) |-> 0]
    /\ z_rv = <<>>
    /\ IdleSieve
    /\ IdleList
    /\ IdleGreedy

NextZip ==
    \/ MyZipRound
    \/ MyZipReturn

SpecZip == InitZip /\ [][NextZip]_vars

\* ----------------------------------------------------------------- sieve

\* The list built by the list comprehension of the removal loop for the
\* current p, n and arrays: f runs over iterate(p), that is p, S_n[p],
\* S_n[S_n[p]], ... while f < n; takewhile keeps the products m = p*f
\* while m <= n; each m gives the tuple (m, S_p[m], S_n[m]).  The list is
\* complete before the loop over it starts.
RECURSIVE TuplesFrom(_, _, _, _, _)
TuplesFrom(f, p, n, Sp, Sn) ==
    IF f < n /\ p * f <= n
    THEN <<<<p * f, Sp[p * f], Sn[p * f]>>>> \o TuplesFrom(Sn[f], p, n, Sp, Sn)
    ELSE <<>>

\* "return (m for m in S_m if m)", run to its end.
NonZero(Sm) ==
    SelectSeq([k \in 1..Len(Sm) |-> Sm[k]], LAMBDA m : m # 0)

\* The for statement of the outer loop asks iterate(2) for its next value:
\* the generator starts with p = 2, or resumes with "p = S_n[p]", and tests
\* "p < n" with the n of sieve as it is now.  If it yields, p is bound and
\* the list of the removal loop is built; if it ends, sieve returns.
\* (Arrays are indexed from 0 in the source and from 1 here: S_m[i + 1]
\* here is S_m[i] there.)
SieveNextP ==
    /\ \/ sv_pc = "start"
       \/ sv_pc = "loop" /\ sv_todo = <<>>
    /\ LET ip == IF sv_pc = "start" THEN 2 ELSE S_n[sv_ip + 1]
       IN  /\ sv_ip' = ip
           /\ IF ip < sv_n
              THEN /\ sv_p' = ip
                   /\ sv_todo' = TuplesFrom(ip, ip, sv_n,
                                     [i \in 0..sv_arg |-> S_p[i + 1]],
                                     [i \in 0..sv_arg |-> S_n[i + 1]])
                   /\ sv_pc' = "loop"
                   /\ sv_res' = sv_res
              ELSE /\ sv_pc' = "returned"
                   /\ sv_res' = NonZero(S_m)
                   /\ UNCHANGED <<sv_p, sv_todo>>
    /\ UNCHANGED <<muxVars, bcVars, getters, listVars, greedyVars, rangeVars, findVars, fibVars,
                   zipVars, sv_arg, sv_n, S_m, S_p, S_n>>

\* One iteration of the removal loop: "for m, p, n in ..." binds m and
\* rebinds sieve's p and n from the tuple, then
\* "S_m[m], S_n[p], S_p[n] = 0, n, p".
SieveRemove ==
    /\ sv_pc = "loop"
    /\ sv_todo # <<>>
    /\ LET m == Head(sv_todo)[1]
           p == Head(sv_todo)[2]
           n == Head(sv_todo)[3]
       IN  /\ sv_p' = p
           /\ sv_n' = n
           /\ S_m' = [S_m EXCEPT ![m + 1] = 0]
           /\ S_n' = [S_n EXCEPT ![p + 1] = n]
           /\ S_p' = [S_p EXCEPT ![n + 1] = p]
    /\ sv_todo' = Tail(sv_todo)
    /\ UNCHANGED <<muxVars, bcVars, getters, listVars, greedyVars, rangeVars, findVars, fibVars,
                   zipVars, sv_arg, sv_pc, sv_ip, sv_res>>

InitSieve ==
    /\ InitMux(<<>>, <<>>)
    /\ InitBcast(<<>>, 0)
    /\ IdleRanges
    /\ IdleFind
    /\ IdleFib
    /\ IdleZip
    /\ sv_arg \in 2..MaxN
    /\ sv_pc = "start"
    /\ sv_n = sv_arg
    /\ sv_p = 0
    /\ sv_ip = 0
    /\ S_m = [k \in 1..(sv_arg + 1) |-> IF k - 1 # 1 THEN k - 1 ELSE 0]
    /\ S_p = [k \in 1..(sv_arg + 1) |-> IF k - 1 # 0 THEN k - 2 ELSE 0]
    /\ S_n = [k \in 1..(sv_arg + 1) |-> IF k - 1 # sv_arg THEN k ELSE sv_arg]
    /\ sv_todo = <<>>
    /\ sv_res = <<>>
    /\ IdleList
    /\ IdleGreedy

NextSieve ==
    \/ SieveNextP
    \/ SieveRemove

SpecSieve == InitSieve /\ [][NextSieve]_vars

\* ---------------------------------------------------------- listiterator

\* The lists: up to MaxListLen elements, each 1 or 2.
Lists == UNION {[1..n -> {1, 2}] : n \in 0..MaxListLen}

\* __next__: the test "self.idx > len(self.list_obj)".
PastEnd(idx, list_obj) == idx > Len(list_obj)

\* One turn of the for loop: "x = next(iterable)".  __next__ raises
\* StopIteration if idx is past the length; otherwise it reads
\* self.list_obj[self.idx], which raises IndexError unless idx is below
\* the length (indices run from 0), adds 1 to idx and returns the value.
\* StopIteration ends the for loop; any other error leaves it.
ListNext ==
    /\ li_pc = "iterating"
    /\ IF PastEnd(li_idx, li_list)
       THEN /\ li_pc' = "StopIteration"
            /\ UNCHANGED <<li_idx, li_out>>
       ELSE IF li_idx < Len(li_list)
       THEN /\ li_out' = Append(li_out, li_list[li_idx + 1])
            /\ li_idx' = li_idx + 1
            /\ li_pc' = li_pc
       ELSE /\ li_pc' = "IndexError"
            /\ UNCHANGED <<li_idx, li_out>>
    /\ UNCHANGED <<muxVars, bcVars, getters, rangeVars, findVars, fibVars,
                   zipVars, sieveVars, greedyVars, li_list>>

InitList ==
    /\ InitMux(<<>>, <<>>)
    /\ InitBcast(<<>>, 0)
    /\ IdleRanges /\ IdleFind /\ IdleFib /\ IdleZip /\ IdleSieve
    /\ IdleGreedy
    /\ li_list \in Lists
    /\ li_idx = 0
    /\ li_pc = "iterating"
    /\ li_out = <<>>

NextList == ListNext

SpecList == InitList /\ [][NextList]_vars

\* ---------------------------------------------------------------- greedy

\* The sources: up to MaxSourceLen positive integers, in any order.
GreedySources == UNION {[1..n -> 1..MaxCoinValue] : n \in 0..MaxSourceLen}

\* Mutant of Fits: the test is "(total+x) < target".
FitsStrictly(total, x, target) == total + x < target

\* The test of the inner loop: "(total+x) <= target".
Fits(total, x, target) == total + x <= target

\* "x = next(source)" with a value left in the iterator.
GreedyNextX ==
    /\ g_pc = "next"
    /\ g_taken < Len(g_source)
    /\ g_x' = g_source[g_taken + 1]
    /\ g_taken' = g_taken + 1
    /\ g_pc' = "inner"
    /\ UNCHANGED <<muxVars, bcVars, getters, rangeVars, findVars, fibVars,
                   zipVars, sieveVars, listVars, g_target, g_source,
                   g_total, g_out>>

\* "x = next(source)" on the exhausted iterator: StopIteration is raised
\* in the body of the generator, which ends it.
GreedyExhausted ==
    /\ g_pc = "next"
    /\ g_taken >= Len(g_source)
    /\ g_pc' = "done"
    /\ UNCHANGED <<muxVars, bcVars, getters, rangeVars, findVars, fibVars,
                   zipVars, sieveVars, listVars, g_target, g_source,
                   g_taken, g_x, g_total, g_out>>

\* The inner loop runs once: "total += x; yield x".
GreedyYield ==
    /\ g_pc = "inner"
    /\ Fits(g_total, g_x, g_target)
    /\ g_total' = g_total + g_x
    /\ g_out' = Append(g_out, g_x)
    /\ UNCHANGED <<muxVars, bcVars, getters, rangeVars, findVars, fibVars,
                   zipVars, sieveVars, listVars, g_target, g_source, g_pc,
                   g_taken, g_x>>

\* The test of the inner loop fails: back to "x = next(source)".
GreedyInnerExit ==
    /\ g_pc = "inner"
    /\ ~Fits(g_total, g_x, g_target)
    /\ g_pc' = "next"
    /\ UNCHANGED <<muxVars, bcVars, getters, rangeVars, findVars, fibVars,
                   zipVars, sieveVars, listVars, g_target, g_source,
                   g_taken, g_x, g_total, g_out>>

InitGreedy ==
    /\ InitMux(<<>>, <<>>)
    /\ InitBcast(<<>>, 0)
    /\ IdleRanges /\ IdleFind /\ IdleFib /\ IdleZip /\ IdleSieve
    /\ IdleList
    /\ g_target \in (0 - 1)..MaxTarget
    /\ g_source \in GreedySources
    /\ g_pc = "next"
    /\ g_taken = 0
    /\ g_x = 0
    /\ g_total = 0
    /\ g_out = <<>>

NextGreedy ==
    \/ GreedyNextX
    \/ GreedyExhausted
    \/ GreedyYield
    \/ GreedyInnerExit

SpecGreedy == InitGreedy /\ [][NextGreedy]_vars

\* ---------------------------------------------------------------- helpers

IsPrefix(s, t) == Len(s) <= Len(t) /\ s = SubSeq(t, 1, Len(s))

\* The items of upstream i within a sequence of items, in order.
From(i, s) == SelectSeq(s, LAMBDA x : x[1] = i)

NonSentinel(s) == SelectSeq(s, LAMBDA x : x # StopIteration)

TotalLen == SumTo([i \in 1..N |-> Len(sources[i])], N)

Entry(s) == [n \in 1..Len(s) |-> s[n][3]]

\* The entries put on queue q, in put order (from the history).
EntriesOn(q, h) == Entry(SelectSeq(h, LAMBDA e : e[1] = q))

\* The entries put by the thread of upstream i, in put order.
EntriesBy(i, h) == Entry(SelectSeq(h, LAMBDA e : e[2] = i))

\* ------------------------------------------------------------------- C1

\* C1: the merged sequence of multiplex(sources) loses, duplicates and
\* invents nothing: at every moment the items of upstream i it has yielded
\* are a prefix of upstream i (so they come in upstream i's order), and
\* when it ends it has yielded sum(len(s_i)) items, all of every upstream.
C1_NoLossInOrder ==
    /\ \A i \in 1..N : IsPrefix(From(i, out), sources[i])
    /\ \A n \in 1..Len(out) : out[n] # StopIteration /\ out[n][1] \in 1..N
    /\ mstate = "done" =>
          /\ Len(out) = TotalLen
          /\ \A i \in 1..N : From(i, out) = sources[i]

\* C1 witness: a finished merge of two upstreams, two items and one item,
\* whose output starts with the second upstream's item.
C1_Witness ==
    /\ mstate = "done"
    /\ N = 2
    /\ Len(sources[1]) = 2
    /\ Len(sources[2]) = 1
    /\ out = <<Item(2, 1), Item(1, 1), Item(1, 2)>>

\* ------------------------------------------------------------------- C2

\* The round-robin order of the spec: round r takes the r-th element of
\* every upstream that has one, in list order.
RECURSIVE RoundRobinFrom(_, _, _)
RoundRobinFrom(srcs, r, i) ==
    IF r > MaxTotal THEN <<>>
    ELSE IF i > Len(srcs) THEN RoundRobinFrom(srcs, r + 1, 1)
    ELSE (IF Len(srcs[i]) >= r THEN <<srcs[i][r]>> ELSE <<>>)
         \o RoundRobinFrom(srcs, r, i + 1)

RoundRobin(srcs) == RoundRobinFrom(srcs, 1, 1)

\* C2 as stated: in every execution the merged sequence is the round-robin
\* order of the upstreams (one element of source 0, one of source 1, ...).
C2_RoundRobinOrder ==
    /\ IsPrefix(out, RoundRobin(sources))
    /\ mstate = "done" => out = RoundRobin(sources)

\* What the code does instead: the merged sequence is the arrival order
\* on the one shared queue: what has been yielded, followed by the items
\* still queued, is the sequence of items in the order the threads put
\* them.
ArrivalOrder ==
    NonSentinel(EntriesOn(1, hist)) = out \o NonSentinel(in_q[1])

\* The failing run: A = [a0, a1] and B = [b0] merged as a0, a1, b0, which
\* is not the round-robin order a0, b0, a1.
NotRoundRobin ==
    /\ mstate = "done"
    /\ N = 2
    /\ out = <<Item(1, 1), Item(1, 2), Item(2, 1)>>
    /\ RoundRobin(sources) = <<Item(1, 1), Item(2, 1), Item(1, 2)>>

\* ------------------------------------------------------------------- C3

Sentinels(s) == Len(s) - Len(NonSentinel(s))

\* C3 as stated: every queue receives at most one sentinel and the
\* sentinel is the last entry ever put on it (so no item leaves the queue
\* after the sentinel has).
C3_OneSentinelLast ==
    \A q \in QueueIds :
        LET e == EntriesOn(q, hist)
        IN  \A n \in 1..Len(e) : e[n] = StopIteration => n = Len(e)

\* What the code does instead: every sendto_queue thread puts at most one sentinel, as
\* its own last entry and after all items of its upstream; a queue holds
\* one sentinel per finished thread that feeds it (up to N on multiplex's
\* queue, with other threads' items after it); and once the last of the N
\* sentinels has been dequeued the queue is empty for good.
OneSentinelPerPump ==
    /\ \A i \in 1..N :
          LET e == EntriesBy(i, hist)
          IN  /\ \A n \in 1..Len(e) : e[n] = StopIteration => n = Len(e)
              /\ NonSentinel(e) = SubSeq(sources[i], 1, pos[i])
              /\ ppc[i] = "done" <=> Sentinels(e) = 1
              /\ ppc[i] = "done" => NonSentinel(e) = sources[i]
    /\ \A q \in QueueIds :
          Sentinels(EntriesOn(q, hist)) =
              Cardinality({ i \in 1..N : QueueOf(i) = q /\ ppc[i] = "done" })
    /\ (N >= 1 /\ \A i \in 1..N : ended[i]) =>
          /\ \A q \in QueueIds : in_q[q] = <<>>
          /\ \A i \in 1..N : ppc[i] = "done"

\* The failing run: two sentinels have been put on the shared queue, an
\* item after the first one, and both adapters have ended.
ItemAfterSentinel ==
    /\ N = 2
    /\ \A i \in 1..N : ended[i]
    /\ \E m, n \in 1..Len(hist) :
          m < n /\ hist[m][3] = StopIteration /\ hist[n][3] # StopIteration

\* ------------------------------------------------------------------- C8

\* Everything that has gone through sink j's queue so far, in queue order:
\* what its consumer has been handed (items, then the sentinel if its input
\* has ended), the entry its thread has taken and not yet tested, and what
\* is still queued.
Received(j) ==
    cseen[j] \o (IF cst[j] = "ended" THEN <<StopIteration>> ELSE <<>>)
             \o cheld[j] \o cq[j]

\* C8: every sink's consumer observes a prefix of S at every moment, and
\* once broadcast has returned, what it has observed followed by the entry
\* its thread holds and by what is still in its queue is S followed by the
\* sentinel; a consumer whose input has ended has observed exactly S and
\* nothing is left for it.  This holds for each sink whatever the other
\* sinks have consumed, and whether or not the program has ended since.
C8_BroadcastFidelity ==
    \A j \in 1..nsinks :
        /\ IsPrefix(cseen[j], bsrc)
        /\ cst[j] = "ended" => (cseen[j] = bsrc /\ cheld[j] = <<>> /\ cq[j] = <<>>)
        /\ bpc = "done" => Received(j) = bsrc \o <<StopIteration>>

\* C8 witness: broadcast of two elements to two sinks has returned; sink 1
\* has observed all of S and ended while sink 2 has not even started.
C8_Witness ==
    /\ bpc = "done"
    /\ nsinks = 2
    /\ Len(bsrc) = 2
    /\ cst[1] = "ended" /\ cseen[1] = bsrc
    /\ cst[2] = "new" /\ cseen[2] = <<>>

\* ------------------------------------------------------------------- C9

\* C9 as stated: a queue per upstream: no queue receives entries of two
\* upstreams, and adapter i yields only elements of upstream i.
C9_OwnQueue ==
    /\ \A m, n \in 1..Len(hist) : hist[m][1] = hist[n][1] => hist[m][2] = hist[n][2]
    /\ \A i \in 1..N : \A n \in 1..Len(yielded[i]) : yielded[i][n][1] = i

RECURSIVE SumLen(_, _)
SumLen(f, n) == IF n = 0 THEN 0 ELSE Len(f[n]) + SumLen(f, n - 1)

\* What the code does instead: all upstreams share one queue: every put goes to it, no
\* other queue is used, and every adapter reads it, so an adapter may yield
\* elements of any upstream; each element is yielded by one adapter only,
\* and the adapters together yield what the merged sequence yields.
SharedQueue ==
    /\ \A n \in 1..Len(hist) : hist[n][1] = 1
    /\ \A q \in QueueIds \ {1} : in_q[q] = <<>>
    /\ \A i, j \in 1..N : \A m \in 1..Len(yielded[i]) : \A n \in 1..Len(yielded[j]) :
          yielded[i][m] = yielded[j][n] => (i = j /\ m = n)
    /\ SumLen(yielded, N) = Len(out)
    /\ \A i \in 1..N : \A n \in 1..Len(yielded[i]) :
          \E m \in 1..Len(out) : out[m] = yielded[i][n]

\* The failing run: the merge has ended and adapter 1 has yielded an
\* element of upstream 2.
ForeignElement ==
    /\ mstate = "done"
    /\ N = 2
    /\ \E n \in 1..Len(yielded[1]) : yielded[1][n][1] = 2

\* ------------------------------------------------------------------- C4

\* C4 as stated: a sendto_queue thread whose upstream raised has still put
\* the end-of-stream sentinel on its queue.
C4_SentinelAfterRaise ==
    \A i \in 1..N : ppc[i] = "raised" => Sentinels(EntriesBy(i, hist)) = 1

\* ------------------------------------------------------------------- C5

\* C5: multiplex([]) starts no thread and builds no adapter, and the merged
\* sequence it returns ends at its first pull: the pull is never blocked and
\* get() is never called.
C5_EmptyEndsAtOnce ==
    N = 0 =>
        /\ mpc # "append"
        /\ started = 0
        /\ st = <<>>
        /\ gets = 0
        /\ lastPull.res = "none"
        /\ out = <<>>
        /\ (mpc = "returned" /\ mstate = "running") => ENABLED MergedEnd

\* C5 witness: the merged sequence of multiplex([]) has ended.
C5_Witness == N = 0 /\ mstate = "done" /\ out = <<>>

\* ------------------------------------------------------------------- C6

\* C6: one sendto_queue feeding one genfrom_queue: the adapter yields a
\* prefix of S, never the sentinel; the queue's history is what was
\* yielded, then the sentinel if it was consumed, then what is queued; the
\* thread puts S and then one sentinel; an ended adapter has yielded S.
C6_RoundTrip ==
    N = 1 =>
        /\ IsPrefix(yielded[1], sources[1])
        /\ \A n \in 1..Len(yielded[1]) : yielded[1][n] # StopIteration
        /\ EntriesOn(1, hist) =
              yielded[1] \o (IF ended[1] THEN <<StopIteration>> ELSE <<>>) \o in_q[1]
        /\ Sentinels(EntriesOn(1, hist)) <= 1
        /\ ppc[1] = "done" => EntriesOn(1, hist) = sources[1] \o <<StopIteration>>
        /\ ended[1] => (yielded[1] = sources[1] /\ in_q[1] = <<>>)

\* C6 witness: a sequence of three items has gone through the queue.
C6_Witness ==
    /\ N = 1
    /\ Len(sources[1]) = 3
    /\ ended[1]
    /\ yielded[1] = sources[1]

\* ------------------------------------------------------------------- C7

\* C7: an adapter that has reported end-of-sequence stays exhausted: it
\* never yields again, and every later pull on it reports end-of-sequence
\* without a get() and without touching any queue.
C7_ExhaustedForGood ==
    [][\A i \in 1..N :
          ended[i] =>
            /\ ended'[i]
            /\ st[i] = "exhausted" /\ st'[i] = "exhausted"
            /\ yielded'[i] = yielded[i]
            /\ pulls'[i] # pulls[i] =>
                  /\ lastPull' = [by |-> i, res |-> "eos"]
                  /\ gets' = gets
                  /\ in_q' = in_q
                  /\ out' = out]_vars

\* C7 witness: an exhausted adapter was pulled again while the queue
\* still held entries.
C7_Witness ==
    /\ repulls >= 1
    /\ lastPull.res = "eos"
    /\ pulls[lastPull.by] >= 2
    /\ in_q[1] # <<>>

\* ------------------------------------------------------------------ C10

\* C10: with fair scheduling the merged sequence over finite upstreams
\* ends, and when it has ended every adapter has seen a sentinel, every
\* thread is done, the queue is empty and every element has been yielded.
C10_Terminates ==
    /\ <>(mstate = "done")
    /\ [](mstate = "done" =>
            /\ \A i \in 1..N : ended[i] /\ ppc[i] = "done"
            /\ \A q \in QueueIds : in_q[q] = <<>>
            /\ Len(out) = TotalLen)

\* C10 witness: the merge of two upstreams holding three elements has ended.
C10_Witness ==
    /\ mstate = "done"
    /\ N = 2
    /\ Len(out) = 3
    /\ Len(sources[1]) >= 1 /\ Len(sources[2]) >= 1

\* ------------------------------------------------------------------ C11

\* C11: broadcast is lock-step.  What has been put on a sink is a prefix
\* of S followed by the sentinel (so one sentinel at most, after the sink's
\* last element), and it has gone through the sink's own queue in that
\* order; a sink earlier in the list has been sent as much as a later one
\* or exactly one entry more; and no sink is a full entry ahead of the
\* source position: element k+1 is not put anywhere before element k has
\* been put on every sink.
C11_LockStep ==
    /\ \A j \in 1..nsinks :
          /\ IsPrefix(csent[j], bsrc \o <<StopIteration>>)
          /\ Received(j) = csent[j]
          /\ bpc = "items" => Len(csent[j]) \in {bpos, bpos + 1}
          /\ bpc = "sentinel" => Len(csent[j]) \in {Len(bsrc), Len(bsrc) + 1}
          /\ bpc = "done" => csent[j] = bsrc \o <<StopIteration>>
    /\ \A i, j \in 1..nsinks :
          i < j => /\ Len(csent[j]) <= Len(csent[i])
                   /\ Len(csent[i]) <= Len(csent[j]) + 1

\* C11 witness: the second element has been put on sink 1 and not yet on
\* sink 2, while sink 1's thread holds the first element it has taken.
C11_Witness ==
    /\ nsinks = 2
    /\ Len(bsrc) = 2
    /\ bpc = "items"
    /\ Len(csent[1]) = 2
    /\ Len(csent[2]) = 1
    /\ cheld[1] # <<>>

\* ------------------------------------------------------------------ C12

\* The positions k of s after which a run ends (s[k+1] is not s[k] + 1),
\* with the last position.
RunEnds(s) ==
    {k \in 1..Len(s) : k = Len(s) \/ s[k + 1] # s[k] + 1}

\* The maximal runs of consecutive integers of s, in order.
MaximalRuns(s) ==
    LET e == SortedSeq(RunEnds(s))
    IN  [p \in 1..Len(e) |->
            SubSeq(s, IF p = 1 THEN 1 ELSE e[p - 1] + 1, e[p])]

\* C12: on every non-empty strictly increasing sequence contiguous ends
\* normally, having yielded the maximal runs of consecutive integers, and
\* to_ranges renders a run of one element a as "a" and a longer one as
\* "first-last".
C12_MaximalRuns ==
    r_in # <<>> =>
        /\ r_pc # "error"
        /\ r_pc \in {"done", "rendered"} => r_out = MaximalRuns(r_in)
        /\ r_pc = "rendered" =>
              /\ Len(r_str) = Len(r_out)
              /\ \A k \in 1..Len(r_out) :
                    r_str[k] = IF Len(r_out[k]) = 1
                               THEN ToString(r_out[k][1])
                               ELSE ToString(r_out[k][1]) \o "-"
                                    \o ToString(r_out[k][Len(r_out[k])])

\* C12 holds on inputs of two elements or more.
C12_FromTwoElements ==
    Len(r_in) >= 2 =>
        /\ r_pc # "error"
        /\ r_pc \in {"done", "rendered"} => r_out = MaximalRuns(r_in)

\* The failing run: a sequence of one element ends in UnboundLocalError.
C12_SingletonRaises ==
    Len(r_in) = 1 => r_pc \notin {"done", "rendered"}

\* ------------------------------------------------------------------ C13

\* The positions of s at which a window of 3 lowercase letters, 1 uppercase
\* letter and 3 lowercase letters begins.
Windows(str) ==
    {k \in 1..Len(str) :
        /\ k + 6 <= Len(str)
        /\ \A d \in {0, 1, 2, 4, 5, 6} : str[k + d] \in Lower
        /\ str[k + 3] \in Upper}

\* C13: on every string of letters, of any length, find returns the
\* leftmost window of 3 lowercase, 1 uppercase, 3 lowercase letters, and
\* None, not an exception, when there is no such window.
C13_LeftmostOrNone ==
    /\ f_pc # "raised"
    /\ f_pc = "returned" =>
          IF Windows(f_s) = {}
          THEN f_res = None
          ELSE \E k \in Windows(f_s) :
                  /\ \A l \in Windows(f_s) : k <= l
                  /\ f_res = SubSeq(f_s, k, k + 6)

\* C13 holds on strings of 6 letters or more.
C13_FromSixLetters ==
    Len(f_s) >= 6 =>
        /\ f_pc # "raised"
        /\ f_pc = "returned" =>
              IF Windows(f_s) = {}
              THEN f_res = None
              ELSE \E k \in Windows(f_s) :
                      /\ \A l \in Windows(f_s) : k <= l
                      /\ f_res = SubSeq(f_s, k, k + 6)

\* The failing runs: a string of at most 5 letters never returns.
C13_ShortRaises ==
    (Len(f_s) <= 5 /\ f_pc # "idle") => f_pc \in {"start", "raised"}

\* ------------------------------------------------------------------ C14

\* C14: for every integer upper_bound the list returned by the list fib
\* equals the values of the generator fib that takewhile passes on (the
\* values strictly below upper_bound).
C14_FibAgree ==
    (fb_lpc = "returned" /\ fb_gpc = "done") => fb_rv = fb_tw

\* C14 holds from upper_bound = 2 on.
C14_FromTwo ==
    (fb_ub >= 2 /\ fb_lpc = "returned" /\ fb_gpc = "done") => fb_rv = fb_tw

\* Below 2 the list fib returns its seed [0, 1], which has values that
\* are not below the bound.
C14_SeedKept ==
    (fb_lpc = "returned" /\ fb_gpc = "done" /\ fb_ub <= 1) =>
        /\ fb_rv = <<0, 1>>
        /\ fb_tw = IF fb_ub = 1 THEN <<0>> ELSE <<>>

\* ------------------------------------------------------------------ C15

\* The length of the shortest of a non-empty tuple of sequences.
MinLen(its) ==
    CHOOSE n \in {Len(its[i]) : i \in 1..Len(its)} :
        \A i \in 1..Len(its) : n <= Len(its[i])

\* The built-in zip: the k-th tuple holds the k-th element of each
\* iterable, up to the length of the shortest; zip() is the empty list.
Zip(its) ==
    IF Len(its) = 0
    THEN <<>>
    ELSE [k \in 1..MinLen(its) |-> [i \in 1..Len(its) |-> its[i][k]]]

\* C15: for any number of finite iterables my_zip builds the list of the
\* built-in zip and returns it.
C15_SameAsZip ==
    /\ IsPrefix(z_rv, Zip(z_in))
    /\ z_pc = "returned" => z_rv = Zip(z_in)

\* C15 holds when there is at least one iterable.
C15_FromOneIterable ==
    Len(z_in) >= 1 =>
        /\ IsPrefix(z_rv, Zip(z_in))
        /\ z_pc = "returned" => z_rv = Zip(z_in)
        /\ (z_pc = "loop" /\ z_rv = Zip(z_in)) => ENABLED MyZipReturn

\* With no iterable my_zip never returns and rv grows without end.
C15_NoIterableLoops ==
    (z_pc # "idle" /\ Len(z_in) = 0) =>
        /\ z_pc = "loop"
        /\ \A k \in 1..Len(z_rv) : z_rv[k] = <<>>
        /\ ~ENABLED MyZipReturn

\* ------------------------------------------------------------------ C16

\* Upstream i is stalled: everything it has produced so far has been
\* yielded and it has not finished (its thread has not put the sentinel).
Stalled(i) ==
    /\ ppc[i] # "done"
    /\ Len(From(i, out)) = pos[i]

\* The merged sequence is at a pull: multiplex has returned and some
\* adapter is still active.
AtPull == mpc = "returned" /\ mstate = "running" /\ Active # {}

\* C16 as stated: while the upstream whose round-robin turn it is is
\* stalled, a step of the merged sequence yields nothing, even if other
\* upstreams have elements waiting.
C16_TurnBlocks ==
    [][(AtPull /\ Stalled(NextAdapter)) => out' = out]_vars

\* What the code does instead: the pull blocks exactly while nothing at all is waiting.
\* All adapters read the one queue, so whenever any upstream has an entry
\* waiting the pull can proceed, whose-ever turn it is; and an item at the
\* head of the queue is what the next pull yields.
BlocksOnEmptyQueue ==
    AtPull =>
        /\ (ENABLED MergedPull) <=> (\E q \in QueueIds : in_q[q] # <<>>)
        /\ \A q \in QueueIds : in_q[q] # <<>> => q = QueueOf(NextAdapter)

\* The failing run: it is the turn of a stalled upstream, an element of
\* the other upstream is waiting, and the pull is not blocked.
TurnDoesNotBlock ==
    /\ AtPull
    /\ N = 2
    /\ Stalled(NextAdapter)
    /\ in_q[1] # <<>>
    /\ Head(in_q[1]) # StopIteration
    /\ Head(in_q[1])[1] # NextAdapter
    /\ ENABLED MergedPull

\* ------------------------------------------------------------------ C17

\* The k-th element of upstream i has been put on a queue.
Produced(i, k) == i \in 1..N /\ k <= pos[i]

\* C17: no starvation.  Under fair scheduling and a consumer that keeps
\* pulling, every element an upstream has produced is eventually yielded
\* by the merged sequence, also when other upstreams are endless.
C17_NoStarvation ==
    \A i \in 1..MaxSources : \A k \in 1..MaxTotal :
        Produced(i, k) ~> (\E n \in 1..Len(out) : out[n] = Item(i, k))

\* C17 witness: the element of a finite upstream has been yielded after
\* two elements of an endless upstream that were produced before it.
C17_Witness ==
    /\ N = 2
    /\ endless[1]
    /\ ~endless[2]
    /\ hist # <<>>
    /\ hist[1][3] = Item(1, 1)
    /\ out = <<Item(1, 1), Item(1, 2), Item(2, 1)>>

\* ------------------------------------------------------------------ C18

\* The thread of upstream i has put every element and the sentinel, and
\* has ended.
PumpFinished(i) ==
    /\ ppc[i] = "done"
    /\ EntriesBy(i, hist) = Append(sources[i], StopIteration)

\* C18: producer progress does not depend on the consumer.  A put is never
\* blocked; whatever the consumer does (never pulls, stops, fails on an
\* item), every sendto_queue thread puts all its elements and its sentinel
\* and ends; and the consumer's failure changes no producer state and no
\* queue content.
C18_ProducersFinish ==
    /\ [](\A i \in 1..N :
            (ppc[i] = "running" /\ pos[i] < Len(sources[i]))
                => ENABLED PumpPut(i))
    /\ <>[](\A i \in 1..N : PumpFinished(i))
    /\ [][(mstate' = "failed" /\ mstate # "failed")
            => UNCHANGED <<ppc, pos, in_q, hist>>]_vars

\* C18 witness: the consumer has failed after one item, and the threads
\* have nevertheless finished, leaving entries no one will read.
C18_Witness ==
    /\ N = 2
    /\ mstate = "failed"
    /\ Len(out) = 1
    /\ \A i \in 1..N : PumpFinished(i)
    /\ Len(in_q[1]) = TotalLen + N - 1

\* ------------------------------------------------------------------ C19

\* The ConsumerThreads that are inside get() on queue q: a running thread
\* that holds no entry is waiting in get() for the next one.
InGet(q) ==
    { j \in 1..nsinks : InQ(j) = q /\ cst[j] = "running" /\ cheld[j] = <<>> /\ ~exited }

\* C19: single-consumer discipline.  On every queue all get() calls come
\* from one thread: the caller's thread on multiplex's queue, ConsumerThread
\* j on its own in_q (and every get() made is on record); and no two
\* threads are inside get() on the same queue at the same time.
C19_SingleGetter ==
    /\ \A a, b \in getters : a[1] = b[1] => a[2] = b[2]
    /\ gets > 0 => <<<<"in_q", 1>>, Caller>> \in getters
    /\ \A j \in 1..nsinks :
          (cseen[j] # <<>> \/ cheld[j] # <<>> \/ cst[j] = "ended")
              => <<<<"cq", j>>, <<"ConsumerThread", j>>>> \in getters
    /\ \A q \in 1..nsinks : Cardinality(InGet(q)) <= 1

\* C19 witness: two ConsumerThreads have each taken an item from a queue
\* and are both inside get() again, each on its own queue.
C19_Witness ==
    /\ nsinks = 2
    /\ cseen[1] # <<>>
    /\ cseen[2] # <<>>
    /\ InGet(1) = {1}
    /\ InGet(2) = {2}
    /\ Cardinality(getters) = 2

\* C19 on the multiplex side: the caller's thread has called get() through
\* both adapters, on the one queue.
C19_CallerGets ==
    ~(/\ nsinks = 0
      /\ N = 2
      /\ yielded[1] # <<>>
      /\ yielded[2] # <<>>
      /\ getters # {<<<<"in_q", 1>>, Caller>>})

\* ------------------------------------------------------------------ C20

IsPrime(p) == p >= 2 /\ \A d \in 2..(p - 1) : p % d # 0

\* The primes from 2 to n in increasing order.
PrimesUpTo(n) == SelectSeq([k \in 1..n |-> k], IsPrime)

\* C20: for every n >= 2 sieve(n) yields exactly the primes from 2 to n,
\* each once, in increasing order.
C20_ExactlyPrimes ==
    sv_pc = "returned" => sv_res = PrimesUpTo(sv_arg)

\* C20 holds for n below 25.
C20_Below25 ==
    (sv_pc = "returned" /\ sv_arg < 25) => sv_res = PrimesUpTo(sv_arg)

\* sieve(25) yields the composite 25: the removal loop for p = 3 leaves n
\* rebound to 23, so no multiple of 5 is removed.
C20_At25 ==
    (sv_pc = "returned" /\ sv_arg = 25) =>
        /\ sv_n = 23
        /\ sv_res = Append(PrimesUpTo(25), 25)

\* ------------------------------------------------------------------ C21

\* C21: iterating listiterator(L) yields the elements of L in index
\* order, each once, and then ends with StopIteration and no other error.
C21_CleanEnd ==
    /\ IsPrefix(li_out, li_list)
    /\ li_pc # "IndexError"
    /\ li_pc = "StopIteration" => li_out = li_list

\* The elements themselves come out in order, each once.
C21_ElementsInOrder == IsPrefix(li_out, li_list)

\* The failing run: after the last element the iteration ends in
\* IndexError, never in StopIteration.
C21_EndsInIndexError ==
    /\ li_pc # "StopIteration"
    /\ li_pc = "IndexError" => li_out = li_list

\* ------------------------------------------------------------------ C22

\* The entries of s before its first sentinel (all of s if it has none).
BeforeSentinel(s) ==
    IF \E n \in 1..Len(s) : s[n] = StopIteration
    THEN SubSeq(s, 1, (CHOOSE n \in 1..Len(s) :
                          /\ s[n] = StopIteration
                          /\ \A l \in 1..(n - 1) : s[l] # StopIteration) - 1)
    ELSE s

SentinelSent(j) == \E n \in 1..Len(csent[j]) : csent[j][n] = StopIteration

\* Nothing is lost, duplicated or reordered on the way: what the target
\* has been handed (then the sentinel, if its input has ended), followed
\* by the entry the thread has taken from in_q and not yet tested and by
\* what waits in in_q, is what was sent; the target is handed only
\* items sent before the first sentinel; and its input has ended only if
\* the sentinel was sent, after all the items sent before it.
Delivery(j) ==
    /\ Received(j) = csent[j]
    /\ IsPrefix(cseen[j], BeforeSentinel(csent[j]))
    /\ cst[j] = "ended" =>
          SentinelSent(j) /\ cseen[j] = BeforeSentinel(csent[j])

\* C22: ConsumerThread delivery, in a program that may end.  Nothing is
\* lost, duplicated or reordered, the target's input ends only once the
\* sentinel is sent, and nothing sent after the sentinel is handed over.
\* Every item sent before the sentinel, whether before or after start(),
\* is eventually handed to the target, and the input ends once the
\* sentinel is sent, unless the program ends first: from then on the
\* daemon thread takes and hands over nothing more, so that what is in
\* in_q and the entry the thread holds are lost, and its input never ends.
C22_DeliveryWhileAlive ==
    /\ [](\A j \in 1..nsinks : Delivery(j))
    /\ \A k \in 1..MaxSends :
          (Len(BeforeSentinel(csent[1])) >= k) ~> (Len(cseen[1]) >= k \/ exited)
    /\ SentinelSent(1) ~> (cst[1] = "ended" \/ exited)
    /\ [][exited => (cseen' = cseen /\ cst' = cst /\ cheld' = cheld /\ cq' = cq)]_vars

\* C22 as stated: every item sent before the sentinel is eventually
\* handed to the target, and the target's input ends once the sentinel is
\* sent, whatever the program does after send().
C22_Delivery ==
    /\ [](\A j \in 1..nsinks : Delivery(j))
    /\ \A k \in 1..MaxSends :
          (Len(BeforeSentinel(csent[1])) >= k) ~> (Len(cseen[1]) >= k)
    /\ SentinelSent(1) ~> (cst[1] = "ended")

\* C22 as stated, as a final result: when the program has ended, every
\* item sent before the sentinel has been handed to the target, and the
\* target's input has ended if the sentinel was sent.
C22_AllHandedOverAtExit ==
    exited =>
        /\ cseen[1] = BeforeSentinel(csent[1])
        /\ SentinelSent(1) => cst[1] = "ended"

\* C22 witness: an item, the sentinel and another item were sent while the
\* program ran; the target got the first item, its input has ended, and
\* the item sent after the sentinel is left in the queue.
C22_Witness ==
    /\ nsinks = 1
    /\ ~exited
    /\ csent[1] = <<Item(1, 1), StopIteration, Item(1, 2)>>
    /\ cseen[1] = <<Item(1, 1)>>
    /\ cst[1] = "ended"
    /\ cq[1] = <<Item(1, 2)>>

\* ------------------------------------------------------------------ C23

RECURSIVE SeqSum(_)
SeqSum(q) == IF q = <<>> THEN 0 ELSE Head(q) + SeqSum(Tail(q))

\* x, c times.
Repeat(x, c) == [n \in 1..c |-> x]

\* What greedy is to yield: going through the source once, each value x
\* as many times as it still fits in what is left of the target.
RECURSIVE FitBlocks(_, _)
FitBlocks(src, left) ==
    IF src = <<>>
    THEN <<>>
    ELSE LET c == IF left >= 0 THEN left \div Head(src) ELSE 0
         IN  Repeat(Head(src), c) \o FitBlocks(Tail(src), left - c * Head(src))

Descending(src) == \A a, b \in 1..Len(src) : a < b => src[a] >= src[b]

\* C23: greedy keeps the sum of what it has yielded within the target,
\* yields each source value as often as it still fits before moving to
\* the next and never goes back, always comes to its end, and on a
\* descending source that contains 1, with target >= 0, ends with the sum
\* equal to the target.
C23_Greedy ==
    /\ g_total = SeqSum(g_out)
    /\ g_out # <<>> => g_total <= g_target
    /\ IsPrefix(g_out, FitBlocks(g_source, g_target))
    /\ g_pc = "done" => g_out = FitBlocks(g_source, g_target)
    /\ g_pc \in {"next", "inner"} => ENABLED NextGreedy
    /\ (/\ g_pc = "done"
        /\ Descending(g_source)
        /\ \E a \in 1..Len(g_source) : g_source[a] = 1
        /\ g_target >= 0) => g_total = g_target

\* C23 witness: greedy(5, [3, 1]) has ended after yielding 3, 1, 1.
C23_Witness ==
    /\ g_pc = "done"
    /\ g_target = 5
    /\ g_source = <<3, 1>>
    /\ g_out = <<3, 1, 1>>
    /\ g_total = 5

====
